---- MODULE Spec2Model ----
(***************************************************************************)
(* Model of simple_dr_meter's main.py: analyze_dr (pool sizing, the outer  *)
(* map over the input files, the shared result lists, the summary          *)
(* statistics), make_log_groups and the part of main that consumes the     *)
(* result.  compute_dr, read_audio_info and read_audio_data live in other  *)
(* modules of the repository; their outcome per track (a DR number, an     *)
(* absent DR, or a decode failure) is an input of the model.               *)
(***************************************************************************)
EXTENDS Integers, Sequences, FiniteSets, TLC

\* ---------------------------------------------------------------- bounds
MaxFiles == 3            \* files in the catalog (num_files)
MaxTracks == 2           \* tracks of one file
MaxTotalTracks == 3      \* tracks of the whole catalog
MaxCpu == 3              \* multiprocessing.cpu_count()
MantBits == 3            \* significand width of the model's binary floats

\* ---------------------------------------------------------------- values
None == 0 - 1            \* dr_metrics.dr of a track too short to measure
NaN == 0 - 2             \* numpy's not-a-number

Pow2(n) == 2 ^ n

\* Per-track DR values, in quanta of the model's floats: 0, a small value and
\* a value so large that adding the small one to it falls half way between
\* two floats (the floats from Pow2(MantBits + 2) on are 8 quanta apart).
SmallDR == Pow2(2)
BigDR == Pow2(MantBits + 2)
DRValues == <<0, SmallDR, BigDR>>

Range(s) == {s[i] : i \in DOMAIN s}

RECURSIVE SumSeq(_)
SumSeq(s) == IF s = <<>> THEN 0 ELSE Head(s) + SumSeq(Tail(s))

BagOfSeq(s) == [v \in Range(s) |-> Cardinality({i \in DOMAIN s : s[i] = v})]

Min(a, b) == IF a < b THEN a ELSE b
Max(a, b) == IF a > b THEN a ELSE b

\* ------------------------------------------------- analyze_dr: pool sizes
ThreadsOuterUnclamped(num_files, cpu) == Max(1, num_files)
ThreadsOuter(num_files, cpu) == Max(1, Min(num_files, cpu))
ThreadsInner(cpu, outer) == cpu \div outer

\* choose_map_impl: the builtin (lazy, in-order, in the calling thread) map
\* for a width of at most 1, else ThreadPool.imap_unordered
UsesPool(threads) == threads > 1

\* ------------------------------------------- numpy.mean / numpy.median
\* Keep-precision mode: the collected values are binary floats.  The model
\* keeps IEEE-754 arithmetic (round to nearest, ties to even, after every
\* operation) on a significand of MantBits bits; a value is a natural
\* number of quanta.  FRound(num, den) is the float nearest to num/den.
RECURSIVE FExp(_, _, _)
FExp(num, den, e) ==
    IF num \div (den * Pow2(e)) < Pow2(MantBits) THEN e ELSE FExp(num, den, e + 1)

FRound(num, den) ==
    LET e == FExp(num, den, 0)
        scale == den * Pow2(e)
        m == num \div scale
        rem == num % scale
        up == 2 * rem > scale \/ (2 * rem = scale /\ m % 2 = 1)
    IN  (IF up THEN m + 1 ELSE m) * Pow2(e)

FAdd(a, b) == FRound(a + b, 1)

\* add.reduce: the elements are added one by one, first to last
RECURSIVE FSum(_, _)
FSum(acc, a) == IF a = <<>> THEN acc ELSE FSum(FAdd(acc, Head(a)), Tail(a))

\* numpy.mean of a list of floats; nan for the empty list
FloatMean(a) == IF a = <<>> THEN NaN ELSE FRound(FSum(0, a), Len(a))

\* Rounding mode: the collected values are small integers, which float64
\* adds exactly, so the sum is the exact sum; numpy.round rounds the
\* quotient half to even and int() converts it.
RoundHalfEven(num, den) ==
    LET q == num \div den
        rem == num % den
    IN  IF 2 * rem > den \/ (2 * rem = den /\ q % 2 = 1) THEN q + 1 ELSE q

IntMeanRounded(a) == RoundHalfEven(SumSeq(a), Len(a))

\* numpy.median: sort, then the middle element or the mean of the two
\* middle elements.  The result is the pair <<num, den>> standing for num/den.
Median(a, keep) ==
    IF a = <<>> THEN <<NaN, 1>>
    ELSE LET s == SortSeq(a, <)
             n == Len(s)
         IN  IF n % 2 = 1 THEN <<s[(n + 1) \div 2], 1>>
             ELSE LET lo == s[n \div 2]
                      hi == s[n \div 2 + 1]
                  IN  IF keep THEN <<FRound(FAdd(lo, hi), 2), 1>>
                      ELSE <<lo + hi, 2>>

\* ------------------------------------------------------- make_log_groups
\* an entry of the aggregation sequence is [info |-> AudioSourceInfo,
\* sub |-> the file's track tuples]
GroupKeyChannelsOnly(x) == <<x.info.channel_count, 0>>
GroupKey(x) == <<x.info.channel_count, x.info.sample_rate>>

\* itertools.groupby: maximal runs of adjacent entries with equal key
RECURSIVE groupby(_)
groupby(l) ==
    IF l = <<>> THEN <<>>
    ELSE LET rest == groupby(Tail(l))
         IN  IF rest # <<>> /\ GroupKey(rest[1][1]) = GroupKey(Head(l))
             THEN <<<<Head(l)>> \o rest[1]>> \o Tail(rest)
             ELSE <<<<Head(l)>>>> \o rest

RECURSIVE flatmap(_)
flatmap(subitems) ==
    IF subitems = <<>> THEN <<>> ELSE Head(subitems).sub \o flatmap(Tail(subitems))

LogGroup(subitems) ==
    [performers |-> {x.info.performer : x \in Range(subitems)},
     albums |-> {x.info.album : x \in Range(subitems)},
     channels |-> GroupKey(subitems[1])[1],
     sample_rate |-> GroupKey(subitems[1])[2],
     tracks_dr |-> flatmap(subitems)]

make_log_groups(l) ==
    LET grouped == groupby(l) IN [g \in DOMAIN grouped |-> LogGroup(grouped[g])]

\* ------------------------------------------------------------ the inputs
\* (channel count, sample rate) of a catalog entry
StreamPairs == {<<2, 44100>>, <<2, 48000>>}

\* the tags of the catalog's files: the performers alternate and the first
\* file is of another album than the rest
Performer(f) == IF f % 2 = 1 THEN "p1" ELSE "p2"
Album(f) == IF f = 1 THEN "a1" ELSE "a2"

\* the tracks of a file are its TrackInfo records; global_index counts the
\* tracks of the whole catalog
AudioSourceInfo(f, pair, first, count) ==
    [file_path |-> f, channel_count |-> pair[1], sample_rate |-> pair[2],
     performer |-> Performer(f), album |-> Album(f),
     tracks |-> [t \in 1..count |-> [global_index |-> first + t - 1]]]

TrackCounts ==
    {c \in UNION {[1..n -> 1..MaxTracks] : n \in 1..MaxFiles} :
        SumSeq(c) <= MaxTotalTracks}

\* read_audio_info: a non-empty catalog, in catalog order
Catalogs(pairs) ==
    UNION { { [f \in DOMAIN c |->
                 AudioSourceInfo(f, k[f], SumSeq(SubSeq(c, 1, f - 1)) + 1, c[f])] :
              k \in [DOMAIN c -> pairs] } : c \in TrackCounts }

VARIABLES audio_info, cpu_count, keep_precision,
          main_pc, threads_outer, threads_inner,
          pc, cb_calls, dr_items, dr_log_items, outqueue, received,
          dr_mean, dr_median, log_groups, log_written, tags_written, error

vars == <<audio_info, cpu_count, keep_precision, main_pc, threads_outer,
          threads_inner, pc, cb_calls, dr_items, dr_log_items, outqueue,
          received, dr_mean, dr_median, log_groups, log_written,
          tags_written, error>>

num_files == Len(audio_info)
Files == 1..num_files

InitWith(catalogs) ==
    /\ audio_info \in catalogs
    /\ cpu_count \in 1..MaxCpu
    /\ keep_precision \in BOOLEAN
    /\ main_pc = "start"
    /\ threads_outer = 0
    /\ threads_inner = 0
    /\ pc = [f \in Files |-> "queued"]
    /\ cb_calls = [f \in Files |-> <<>>]
    /\ dr_items = <<>>
    /\ dr_log_items = <<>>
    /\ outqueue = <<>>
    /\ received = 0
    /\ dr_mean = None
    /\ dr_median = <<None, 1>>
    /\ log_groups = <<>>
    /\ log_written = "no"
    /\ tags_written = FALSE
    /\ error = "no"

\* ------------------------------------------------------------- analyze_dr
Alive == main_pc # "start" /\ main_pc # "exited"

\* a pool worker is busy from taking a task until it has put its result
Busy == {f \in Files : pc[f] = "started" \/ pc[f] = "tracks"}

\* the parts are handed out in catalog order
AnyQueued(f) == pc[f] = "queued"
NextQueued(f) == pc[f] = "queued" /\ \A g \in Files : g < f => pc[g] # "queued"

\* lines 205-216: cpu_count, the two widths, the two map implementations
SizePools ==
    /\ main_pc = "start"
    /\ threads_outer' = ThreadsOuter(num_files, cpu_count)
    /\ threads_inner' = ThreadsInner(cpu_count, ThreadsOuter(num_files, cpu_count))
    /\ main_pc' = "loop"
    /\ UNCHANGED <<audio_info, cpu_count, keep_precision, pc, cb_calls, dr_items,
                   dr_log_items, outqueue, received, dr_mean, dr_median,
                   log_groups, log_written, tags_written, error>>

\* imap_unordered: every part is queued when the loop of line 283 starts; an
\* idle worker thread takes the next one and calls process_part
PoolTake(f) ==
    /\ Alive
    /\ UsesPool(threads_outer)
    /\ NextQueued(f)
    /\ Cardinality(Busy) < threads_outer
    /\ pc' = [pc EXCEPT ![f] = "started"]
    /\ UNCHANGED <<audio_info, cpu_count, keep_precision, main_pc, threads_outer,
                   threads_inner, cb_calls, dr_items, dr_log_items, outqueue,
                   received, dr_mean, dr_median, log_groups, log_written,
                   tags_written, error>>

\* builtin map: the loop of line 283 asks for the next item and the main
\* thread itself calls process_part for the next part
MapNext(f) ==
    /\ main_pc = "loop"
    /\ ~UsesPool(threads_outer)
    /\ NextQueued(f)
    /\ Busy = {}
    /\ pc' = [pc EXCEPT ![f] = "started"]
    /\ UNCHANGED <<audio_info, cpu_count, keep_precision, main_pc, threads_outer,
                   threads_inner, cb_calls, dr_items, dr_log_items, outqueue,
                   received, dr_mean, dr_median, log_groups, log_written,
                   tags_written, error>>

\* process_part, analyze_part, then process_results lines 262-263
BeginResults(f) ==
    /\ Alive
    /\ pc[f] = "started"
    /\ dr_log_items' = Append(dr_log_items, [info |-> audio_info[f], sub |-> <<>>])
    /\ pc' = [pc EXCEPT ![f] = "tracks"]
    /\ UNCHANGED <<audio_info, cpu_count, keep_precision, main_pc, threads_outer,
                   threads_inner, cb_calls, dr_items, outqueue, received, dr_mean,
                   dr_median, log_groups, log_written, tags_written, error>>

NextTrack(f) == Len(cb_calls[f]) + 1

\* line 269, "if dr:": the values that are collected
Collects(dr) == dr # None /\ dr # 0

AppendSubAll(l, f, item) == [i \in DOMAIN l |-> [l[i] EXCEPT !.sub = Append(@, item)]]

\* dr_log_subitems is the list of the entry of part f
AppendSub(l, f, item) ==
    [i \in DOMAIN l |->
        IF l[i].info.file_path = f THEN [l[i] EXCEPT !.sub = Append(@, item)] ELSE l[i]]

\* one iteration of the loop of process_results (lines 265-276) over the
\* generator of analyze_part_tracks; dr is dr_metrics.dr as compute_dr
\* returns it for the track
ProcessTrack(f, values) ==
    /\ Alive
    /\ pc[f] = "tracks"
    /\ NextTrack(f) <= Len(audio_info[f].tracks)
    /\ \E v \in DOMAIN values :
          LET dr == values[v]
              track_info == audio_info[f].tracks[NextTrack(f)]
          IN  /\ cb_calls' = [cb_calls EXCEPT ![f] = Append(@, <<track_info, dr>>)]
              /\ dr_items' = IF Collects(dr) THEN Append(dr_items, dr) ELSE dr_items
              /\ dr_log_items' =
                     AppendSub(dr_log_items, f,
                               [dr |-> dr, name |-> track_info.global_index, path |-> f])
    /\ UNCHANGED <<audio_info, cpu_count, keep_precision, main_pc, threads_outer,
                   threads_inner, pc, outqueue, received, dr_mean, dr_median,
                   log_groups, log_written, tags_written, error>>

\* the block source raises while the next track is decoded: process_part
\* ends by the exception.  A pool worker hands it to the result queue and
\* goes on with the next task; under the builtin map it reaches line 283 at once.
TrackFails(f) ==
    /\ Alive
    /\ pc[f] = "tracks"
    /\ NextTrack(f) <= Len(audio_info[f].tracks)
    /\ pc' = [pc EXCEPT ![f] = "failed"]
    /\ IF UsesPool(threads_outer)
       THEN /\ outqueue' = Append(outqueue, [success |-> FALSE])
            /\ UNCHANGED <<main_pc, error>>
       ELSE /\ main_pc' = "raised"
            /\ error' = "DecodeFailure"
            /\ UNCHANGED outqueue
    /\ UNCHANGED <<audio_info, cpu_count, keep_precision, threads_outer,
                   threads_inner, cb_calls, dr_items, dr_log_items, received,
                   dr_mean, dr_median, log_groups, log_written, tags_written>>

\* line 277: process_results returns the track results of the part
FinishPart(f) ==
    /\ Alive
    /\ pc[f] = "tracks"
    /\ NextTrack(f) > Len(audio_info[f].tracks)
    /\ pc' = [pc EXCEPT ![f] = "finished"]
    /\ IF UsesPool(threads_outer)
       THEN /\ outqueue' = Append(outqueue, [success |-> TRUE])
            /\ UNCHANGED received
       ELSE /\ received' = received + 1
            /\ UNCHANGED outqueue
    /\ UNCHANGED <<audio_info, cpu_count, keep_precision, main_pc, threads_outer,
                   threads_inner, cb_calls, dr_items, dr_log_items, dr_mean,
                   dr_median, log_groups, log_written, tags_written, error>>

\* lines 283-286 over imap_unordered: the next result in completion order
\* (the loop discards the track results it holds); a failed part raises its
\* exception in the main thread
IgnoresFailure(item) == FALSE
RaisesInLoop(item) == ~item.success

MainReceive ==
    /\ main_pc = "loop"
    /\ UsesPool(threads_outer)
    /\ outqueue # <<>>
    /\ outqueue' = Tail(outqueue)
    /\ IF RaisesInLoop(Head(outqueue))
       THEN /\ main_pc' = "raised"
            /\ error' = "DecodeFailure"
            /\ UNCHANGED received
       ELSE /\ received' = received + 1
            /\ UNCHANGED <<main_pc, error>>
    /\ UNCHANGED <<audio_info, cpu_count, keep_precision, threads_outer,
                   threads_inner, pc, cb_calls, dr_items, dr_log_items, dr_mean,
                   dr_median, log_groups, log_written, tags_written>>

\* the loop of line 283 ends when the map is exhausted
LoopEndsEarly == received >= 1
LoopExhausted == received = num_files

\* lines 288-294
Aggregate ==
    /\ main_pc = "loop"
    /\ LoopExhausted
    /\ IF keep_precision
       THEN /\ dr_mean' = FloatMean(dr_items)
            /\ dr_median' = Median(dr_items, TRUE)
            /\ main_pc' = "returned"
            /\ UNCHANGED error
       ELSE IF dr_items = <<>>
            THEN \* int() of not-a-number raises ValueError
                 /\ main_pc' = "raised"
                 /\ error' = "ValueError"
                 /\ UNCHANGED <<dr_mean, dr_median>>
            ELSE /\ dr_mean' = IntMeanRounded(dr_items)
                 /\ dr_median' = Median(dr_items, FALSE)
                 /\ main_pc' = "returned"
                 /\ UNCHANGED error
    /\ UNCHANGED <<audio_info, cpu_count, keep_precision, threads_outer,
                   threads_inner, pc, cb_calls, dr_items, dr_log_items, outqueue,
                   received, log_groups, log_written, tags_written>>

\* ------------------------------------------------------------------ main
\* lines 160-165: the generator of make_log_groups is run
MaterializeGroups ==
    /\ main_pc = "returned"
    /\ log_groups' = make_log_groups(dr_log_items)
    /\ main_pc' = "grouped"
    /\ UNCHANGED <<audio_info, cpu_count, keep_precision, threads_outer,
                   threads_inner, pc, cb_calls, dr_items, dr_log_items, outqueue,
                   received, dr_mean, dr_median, log_written, tags_written, error>>

\* lines 135-138 and 167-174
WriteLog ==
    /\ main_pc = "grouped"
    /\ \E no_log \in BOOLEAN, no_resample \in BOOLEAN :
          LET should_write_log == ~no_log /\ ~keep_precision /\ ~no_resample
          IN  log_written' = IF should_write_log THEN "dr.txt" ELSE "stdout"
    /\ main_pc' = "logged"
    /\ UNCHANGED <<audio_info, cpu_count, keep_precision, threads_outer,
                   threads_inner, pc, cb_calls, dr_items, dr_log_items, outqueue,
                   received, dr_mean, dr_median, log_groups, tags_written, error>>

\* lines 176-179
WriteTags ==
    /\ main_pc = "logged"
    /\ \E should_tag \in BOOLEAN : tags_written' = should_tag
    /\ main_pc' = "exited"
    /\ UNCHANGED <<audio_info, cpu_count, keep_precision, threads_outer,
                   threads_inner, pc, cb_calls, dr_items, dr_log_items, outqueue,
                   received, dr_mean, dr_median, log_groups, log_written, error>>

\* the exception leaves analyze_dr and main uncaught: the interpreter prints
\* the traceback and exits, which ends the daemon threads of the pool
ExitOnError ==
    /\ main_pc = "raised"
    /\ main_pc' = "exited"
    /\ UNCHANGED <<audio_info, cpu_count, keep_precision, threads_outer,
                   threads_inner, pc, cb_calls, dr_items, dr_log_items, outqueue,
                   received, dr_mean, dr_median, log_groups, log_written,
                   tags_written, error>>

\* values: the DR results compute_dr yields for the tracks of the run
Step(values) ==
    \/ SizePools
    \/ \E f \in Files : PoolTake(f)
    \/ \E f \in Files : MapNext(f)
    \/ \E f \in Files : BeginResults(f)
    \/ \E f \in Files : ProcessTrack(f, values)
    \/ \E f \in Files : TrackFails(f)
    \/ \E f \in Files : FinishPart(f)
    \/ MainReceive
    \/ Aggregate
    \/ MaterializeGroups
    \/ WriteLog
    \/ WriteTags
    \/ ExitOnError

\* Spec: every catalog, every track with a measured DR
Init == InitWith(Catalogs(StreamPairs))
Next == Step(<<SmallDR>>)
Spec == Init /\ [][Next]_vars

\* SpecStats: catalogs of one (channel count, sample rate), every DR value
\* and the absent DR
InitStats == InitWith(Catalogs({<<2, 44100>>}))
NextStats == Step(<<None>> \o DRValues)
SpecStats == InitStats /\ [][NextStats]_vars

\* ======================================================================
\* Properties
\* ======================================================================
Grouped ==
    error = "no" /\ (main_pc = "grouped" \/ main_pc = "logged" \/ main_pc = "exited")

\* analyze_dr has returned its result
Returned == (error = "no" /\ main_pc = "returned") \/ Grouped

\* the shared lists have been read for the statistics (lines 288-292)
Aggregated == Returned \/ error = "ValueError"

\* the DR values the callback was given, in catalog order
RECURSIVE TrackDRs(_)
TrackDRs(f) ==
    IF f = 0 THEN <<>>
    ELSE TrackDRs(f - 1) \o [t \in DOMAIN cb_calls[f] |-> cb_calls[f][t][2]]

\* the tracks of the callbacks of file f, in call order
CalledTracks(f) == [t \in DOMAIN cb_calls[f] |-> cb_calls[f][t][1]]

\* ---------------------------------------------------------------------
\* C1: for P >= 1 and T >= 1 the widths are W_outer = max(1, min(T, P)) and
\* W_inner = P div W_outer, with 1 <= W_outer <= P, W_inner >= 1 and
\* W_outer * W_inner <= P; they are set before any part is scheduled and
\* keep these values, which depend on the inputs only, ever after.
C1_PoolWidths ==
    LET P == cpu_count
        T == num_files
        W == IF T < P THEN T ELSE P
    IN  /\ main_pc = "start" => \A f \in Files : pc[f] = "queued"
        /\ main_pc # "start" =>
              /\ threads_outer = (IF W < 1 THEN 1 ELSE W)
              /\ threads_inner = P \div threads_outer
              /\ 1 <= threads_outer /\ threads_outer <= P
              /\ threads_inner >= 1
              /\ threads_outer * threads_inner <= P

C1_Witness ==
    /\ num_files > cpu_count /\ cpu_count >= 2
    /\ \E f \in Files : pc[f] = "tracks"
    /\ \E f \in Files : pc[f] = "finished"

\* ---------------------------------------------------------------------
\* C2: when dr_items and dr_log_items are read for the statistics every
\* part has finished all its tracks, and from then on neither list changes.
C2_AggregationAfterBarrier ==
    /\ [](Aggregated =>
            \A f \in Files :
                pc[f] = "finished" /\ Len(cb_calls[f]) = Len(audio_info[f].tracks))
    /\ [][Aggregated => dr_items' = dr_items /\ dr_log_items' = dr_log_items]_vars

C2_Witness ==
    /\ main_pc = "returned"
    /\ threads_outer >= 2
    /\ Len(dr_items) >= 2
    /\ dr_log_items[1].info.file_path # 1

\* what the run of outer width 1 collects: the collected values in catalog order
SequentialItems == SelectSeq(TrackDRs(num_files), Collects)

MeanOf(a) == IF keep_precision THEN FloatMean(a) ELSE IntMeanRounded(a)

\* ---------------------------------------------------------------------
\* C3: a run of outer width 3 ends with the multiset of collected values,
\* the mean and the median that the run of outer width 1 over the same
\* per-track DR values ends with; that run collects the values in catalog
\* order.
C3_SameAsSequentialRun ==
    /\ threads_outer = 1 => dr_items = SequentialItems
    /\ (Returned /\ threads_outer = 3) =>
          /\ BagOfSeq(dr_items) = BagOfSeq(SequentialItems)
          /\ dr_mean = MeanOf(SequentialItems)
          /\ dr_median = Median(SequentialItems, keep_precision)

PairOf(info) == <<info.channel_count, info.sample_rate>>

\* the files that have a track in group g
FilesIn(g) == {t.path : t \in Range(g.tracks_dr)}

NonAbsent(dr) == dr # None

\* ---------------------------------------------------------------------
\* C5: the values the mean and the median are computed over are exactly
\* the per-track DR values that are not None, a DR of 0 included.
C5_StatisticsOverNonAbsent ==
    Aggregated =>
        BagOfSeq(dr_items) = BagOfSeq(SelectSeq(TrackDRs(num_files), NonAbsent))

\* every track has been processed and has no DR
AllAbsent ==
    \A f \in Files :
        /\ Len(cb_calls[f]) = Len(audio_info[f].tracks)
        /\ \A t \in DOMAIN cb_calls[f] : cb_calls[f][t][2] = None

\* ---------------------------------------------------------------------
\* C6: when every track has an absent DR the run ends in a fatal error:
\* analyze_dr does not return, in either mode, and no mean or median is
\* not-a-number.
C6_NoMeasurableTracksIsFatal ==
    AllAbsent => ~Returned /\ dr_mean # NaN /\ dr_median[1] # NaN

DecodeFailed == \E f \in Files : pc[f] = "failed"

\* ---------------------------------------------------------------------
\* C7: once decoding has failed for a track, analyze_dr never returns a
\* result and main writes neither a log (dr.txt or standard output) nor
\* tags; the run ends by the decode failure.
C7_NoReportAfterDecodeFailure ==
    DecodeFailed =>
        /\ ~Returned
        /\ dr_mean = None /\ dr_median[1] = None /\ log_groups = <<>>
        /\ log_written = "no" /\ ~tags_written
        /\ main_pc = "exited" => error = "DecodeFailure"

C7_Witness ==
    /\ DecodeFailed
    /\ main_pc = "exited"
    /\ UsesPool(threads_outer)
    /\ \E f \in Files : pc[f] = "finished"
    /\ dr_items # <<>>

\* ---------------------------------------------------------------------
\* C8: after a decode failure has reached the loop of analyze_dr no worker
\* processes a further track: no callback is invoked and nothing is
\* appended to the shared lists.
C8_FailureAbortsInFlightWork ==
    [][(main_pc = "raised" /\ error = "DecodeFailure") =>
          /\ cb_calls' = cb_calls
          /\ dr_items' = dr_items
          /\ dr_log_items' = dr_log_items]_vars

InCatalogOrder == \A i \in DOMAIN dr_log_items : dr_log_items[i].info.file_path = i

\* ---------------------------------------------------------------------
\* C9: with outer width 1 the aggregation sequence is always in catalog
\* order, so the files of a run of equal pairs in the catalog form one
\* group; with a greater width it can be out of catalog order, two files
\* of the same pair, neighbours in the catalog, being separated by a file
\* of another pair and reported as two groups (C9_Witness).
C9_SequentialKeepsCatalogOrder ==
    threads_outer = 1 =>
        /\ InCatalogOrder
        /\ Grouped =>
              \A f \in 1..(num_files - 1) :
                  PairOf(audio_info[f]) = PairOf(audio_info[f + 1]) =>
                      \E g \in Range(log_groups) : {f, f + 1} \subseteq FilesIn(g)

C9_Witness ==
    /\ Grouped
    /\ threads_outer > 1
    /\ ~InCatalogOrder
    /\ \E f \in 1..(num_files - 1) :
          /\ PairOf(audio_info[f]) = PairOf(audio_info[f + 1])
          /\ \E i \in 1..(Len(dr_log_items) - 2) :
                /\ {dr_log_items[i].info.file_path,
                    dr_log_items[i + 2].info.file_path} = {f, f + 1}
                /\ PairOf(dr_log_items[i + 1].info) # PairOf(audio_info[f])
          /\ \E g, h \in DOMAIN log_groups :
                /\ g # h
                /\ f \in FilesIn(log_groups[g])
                /\ f + 1 \in FilesIn(log_groups[h])
                /\ log_groups[g].sample_rate = log_groups[h].sample_rate
                /\ log_groups[g].channels = log_groups[h].channels

\* the track lists of the log groups, one after the other
RECURSIVE AllGroupTracks(_)
AllGroupTracks(g) ==
    IF g = 0 THEN <<>> ELSE AllGroupTracks(g - 1) \o log_groups[g].tracks_dr

\* ---------------------------------------------------------------------
\* C10: in a run without decode failure the callback is invoked exactly
\* once for every track of every file, in the file's track order; every
\* track is exactly once in the track list of exactly one log group, and
\* the tracks of one file are there in the file's track order.
C10_EveryTrackOnceInOrder ==
    /\ Returned =>
          \A f \in Files :
              /\ CalledTracks(f) = audio_info[f].tracks
              /\ \E i \in DOMAIN dr_log_items :
                    /\ dr_log_items[i].info = audio_info[f]
                    /\ dr_log_items[i].sub =
                          [t \in DOMAIN cb_calls[f] |->
                              [dr |-> cb_calls[f][t][2],
                               name |-> audio_info[f].tracks[t].global_index,
                               path |-> f]]
    /\ Grouped =>
          LET all == AllGroupTracks(Len(log_groups))
          IN  \A f \in Files :
                  LET OfFile(t) == t.path = f
                      mine == SelectSeq(all, OfFile)
                  IN  /\ [t \in DOMAIN mine |-> mine[t].name] =
                           [t \in DOMAIN audio_info[f].tracks |->
                               audio_info[f].tracks[t].global_index]
                      /\ Cardinality({g \in DOMAIN log_groups :
                                        f \in FilesIn(log_groups[g])}) = 1

C10_Witness ==
    /\ Grouped
    /\ threads_outer >= 2
    /\ Len(log_groups) >= 2
    /\ \E f \in Files : Len(audio_info[f].tracks) = 2
    /\ dr_log_items[1].info.file_path # 1

====
